---- MODULE Spec2Model ----
(***************************************************************************)
(* Model of the attendance backend (frontend/backend/app.py): the three    *)
(* SQLite tables users, events and attendance, the Flask session cookie of *)
(* each client, and one action per HTTP route handler.                     *)
(*                                                                         *)
(* Spec         every request runs to completion before the next one       *)
(*              starts; one student account, every route but the reads.    *)
(* AllSpec      Spec with the stats route and an update of a student's     *)
(*              email to the email of the admin.                           *)
(* IdSpec       the same for the identity routes, with two accounts.       *)
(* ConcSpec     mark_attendance runs statement by statement, so that the   *)
(*              statements of the requests in flight interleave.           *)
(* RegConcSpec  the same for register.                                     *)
(*                                                                         *)
(* Abstractions: created_at / timestamp columns are left out; generated    *)
(* ids (timestamp plus os.urandom) are fresh ids drawn from a counter.     *)
(***************************************************************************)
EXTENDS Integers, Sequences, FiniteSets, TLC

VARIABLES users, events, attendance, session, nextUser, nextEvent, nextAtt, last, procs

vars == <<users, events, attendance, session, nextUser, nextEvent, nextAtt, last, procs>>
tables == <<users, events, attendance>>

(***************************************************************************)
(* Bounds of the model.                                                    *)
(***************************************************************************)
\* number of student accounts register may create in one behaviour of IdSpec
\* and of ConcSpec
MaxUsers == 2
\* number of student accounts register may create in one behaviour of Spec
\* (the seeded admin is the second verified user there)
MaxStudents == 1
\* number of events create_event may create in one behaviour
MaxEvents == 1
\* number of attendance rows mark_attendance may insert in one behaviour
MaxAtt == 2
\* number of requests that may be in flight at once under ConcSpec
MaxProcs == 2

\* register: len(data['password']) < 6 is rejected
MinPasswordLen == 6

\* SQL NULL, Python None, a key absent from the session
NULL == "NULL"
\* a JSON field that is missing or empty: `not data.get(field)` holds
EMPTY == ""
\* a key that is not in the JSON body of a PUT request
ABSENT == "ABSENT"

Clients == {"c1"}

(***************************************************************************)
(* Identifiers.                                                            *)
(***************************************************************************)
AdminId == "admin_0"
UserIdOf(n) == "student_" \o ToString(n)
EventIdOf(n) == "event_" \o ToString(n)
AttIdOf(n) == "attendance_" \o ToString(n)

\* ids a request may name: every id that can exist, whether or not it does
UserIdInputs == {AdminId} \cup {UserIdOf(n) : n \in 1..MaxUsers}
EventIdInputs == {EventIdOf(n) : n \in 1..(MaxEvents + 1)}
AttIdInputs == {AttIdOf(n) : n \in 1..MaxAtt}

(***************************************************************************)
(* Text values.  An email is a sequence of characters, so that lower() is  *)
(* computed character by character.                                        *)
(***************************************************************************)
\* mutant of Lower: the email is stored and compared as typed
LowerNone(s) == s

LowerChar(ch) ==
    CASE ch = "A" -> "a"
      [] ch = "B" -> "b"
      [] ch = "X" -> "x"
      [] OTHER -> ch

\* str.lower()
Lower(s) == [i \in 1..Len(s) |-> LowerChar(s[i])]

\* 'hckthon2026@gmail.com'
AdminEmail == <<"h","c","k","t","h","o","n","2","0","2","6","@","g","m","a","i","l",".","c","o","m">>
AdminPassword == "hckthon2026"

\* an email field that is missing or empty, and one that is not in the body
NoEmail == << >>
AbsentEmail == <<"ABSENT">>
Emails == { <<"a","@","x">>, <<"A","@","x">>, <<"b","@","x">> }
StudentIds == {"S1", "S2"}
Passwords == {"secret1", "abc12"}
QrCodes == {"QR1", "QR2"}
Roles == {"student", "admin"}

\* the row of the default admin, inserted by init_db
AdminRow ==
    [id |-> AdminId, student_id |-> NULL, first_name |-> "Admin", last_name |-> "User",
     email |-> AdminEmail, password |-> AdminPassword, role |-> "admin",
     status |-> "verified", profile_photo |-> NULL, qr_code |-> NULL]

NoSession == [user_id |-> NULL, role |-> NULL]


(***************************************************************************)
(* Request bodies.                                                         *)
(***************************************************************************)
\* JSON bodies of POST /api/auth/register
RegisterInputs(sids, emails) ==
    [student_id : sids, first_name : {"Ann"}, last_name : {"Lee"},
     email : emails, password : Passwords]

NoPatch ==
    [first_name |-> ABSENT, last_name |-> ABSENT, email |-> AbsentEmail,
     password |-> ABSENT, profile_photo |-> ABSENT]

\* JSON bodies of PUT /api/users/<user_id>: of IdSpec and ConcSpec (the email,
\* a password that is too short) and of Spec (the name and the photo)
EmailPatches ==
    { NoPatch,
      [NoPatch EXCEPT !.password = "abc12"],
      [NoPatch EXCEPT !.email = <<"A","@","x">>],
      [NoPatch EXCEPT !.email = <<"B","@","x">>] }
ProfilePatches ==
    { NoPatch,
      [NoPatch EXCEPT !.first_name = "Bob", !.profile_photo = "P1"] }

\* JSON bodies of POST /api/events
EventInputs ==
    [name : {"Fair", EMPTY}, description : {"d"}, date : {"2026-01-01"},
     start_time : {"09:00"}, end_time : {"10:00"}]

NoEventPatch ==
    [name |-> ABSENT, description |-> ABSENT, date |-> ABSENT,
     start_time |-> ABSENT, end_time |-> ABSENT, status |-> ABSENT]

\* JSON bodies of PUT /api/events/<event_id>
EventPatches == { NoEventPatch, [NoEventPatch EXCEPT !.status = "closed"] }

(***************************************************************************)
(* The store: statements of the handlers as operators on tables.           *)
(***************************************************************************)
\* SELECT * FROM users WHERE id = ?
UsersById(tbl, uid) == {u \in tbl : u.id = uid}

\* SELECT * FROM users WHERE email = ?
UsersByEmail(tbl, email) == {u \in tbl : u.email = email}

\* SELECT * FROM users WHERE student_id = ?   (NULL = ? is never true)
UsersByStudentId(tbl, sid) == {u \in tbl : u.student_id # NULL /\ u.student_id = sid}

\* mutant of UsersConstraintOk: the table has its primary key and no UNIQUE
\* column
UsersConstraintPkOnly(tbl, row) == \A u \in tbl : u.id # row.id

\* the constraints of the users table a new or changed row can break:
\* id PRIMARY KEY, student_id UNIQUE, email UNIQUE (the NOT NULL columns
\* always receive a text value from the request bodies modelled here)
UsersConstraintOk(tbl, row) ==
    \A u \in tbl :
          /\ u.id # row.id
          /\ u.email # row.email
          /\ (row.student_id = NULL \/ u.student_id = NULL \/ u.student_id # row.student_id)

\* the row register inserts
NewStudentRow(uid, d) ==
    [id |-> uid, student_id |-> d.student_id, first_name |-> d.first_name,
     last_name |-> d.last_name, email |-> Lower(d.email), password |-> d.password,
     role |-> "student", status |-> "pending", profile_photo |-> NULL, qr_code |-> NULL]

\* mutant of AttendanceFor: the existence check finds nothing
AttendanceForNoCheck(tbl, eid, sid) == {}

\* mutant of AttendanceFor: the existence check looks at the event alone
AttendanceForEventOnly(tbl, eid, sid) == {r \in tbl : r.event_id = eid}

\* SELECT * FROM attendance WHERE event_id = ? AND student_id = ?
AttendanceFor(tbl, eid, sid) == {r \in tbl : r.event_id = eid /\ r.student_id = sid}

\* variant of NewAttendanceRow: the row carries the name and no photo
NewAttendanceRowNoPhoto(aid, eid, sid, student) ==
    [id |-> aid, event_id |-> eid, student_id |-> sid,
     student_name |-> student.first_name \o " " \o student.last_name,
     student_photo |-> NULL]

\* the row mark_attendance inserts for the student row it has read
NewAttendanceRow(aid, eid, sid, student) ==
    [id |-> aid, event_id |-> eid, student_id |-> sid,
     student_name |-> student.first_name \o " " \o student.last_name,
     student_photo |-> student.profile_photo]

\* the user projection login, check_auth and get_user return (no password)
PublicUser(u) ==
    [id |-> u.id, student_id |-> u.student_id, first_name |-> u.first_name,
     last_name |-> u.last_name, email |-> u.email, role |-> u.role,
     status |-> u.status, profile_photo |-> u.profile_photo, qr_code |-> u.qr_code]

\* the only element of a set of one row (cursor.fetchone())
FetchOne(rows) == CHOOSE r \in rows : TRUE

\* variant of NotAdmin: the gate turns away the caller without a session and
\* lets every logged-in caller through
NotAdminNoSession(c) == session[c].role = NULL

\* session.get('role') != 'admin'
NotAdmin(c) == session[c].role # "admin"

\* session.get('user_id') != user_id and session.get('role') != 'admin'
NotSelfNorAdmin(c, uid) == session[c].user_id # uid /\ session[c].role # "admin"

Respond(op, code, body) == last' = [op |-> op, code |-> code, body |-> body]

(***************************************************************************)
(* Handlers, each run as one atomic request of client c.                   *)
(***************************************************************************)
\* an error response: nothing but the response changes
Fail(op, code) ==
    /\ Respond(op, code, NULL)
    /\ UNCHANGED <<users, events, attendance, session, nextUser, nextEvent, nextAtt, procs>>

\* a success response of a request that leaves the session and the counters alone
Ok(op, code, body) ==
    /\ Respond(op, code, body)
    /\ UNCHANGED <<session, nextUser, nextEvent, nextAtt, procs>>

\* register: a required field is missing or the password is too short
RegisterInvalid(d) ==
    \/ d.student_id = EMPTY \/ d.first_name = EMPTY \/ d.last_name = EMPTY
    \/ d.email = NoEmail \/ d.password = EMPTY
    \/ Len(d.password) < MinPasswordLen

\* POST /api/auth/register
Register(d, cap) ==
    IF RegisterInvalid(d) THEN Fail("register", 400)
    ELSE IF UsersByEmail(users, Lower(d.email)) # {} THEN Fail("register", 409)
    ELSE IF UsersByStudentId(users, d.student_id) # {} THEN Fail("register", 409)
    ELSE /\ nextUser < cap
         /\ LET row == NewStudentRow(UserIdOf(nextUser + 1), d) IN
               IF UsersConstraintOk(users, row)
               THEN /\ users' = users \cup {row}
                    /\ nextUser' = nextUser + 1
                    /\ Respond("register", 201, NULL)
                    /\ UNCHANGED <<events, attendance, session, nextEvent, nextAtt, procs>>
               ELSE Fail("register", 500)

\* POST /api/auth/login
Login(c, email, password) ==
    IF Lower(email) = NoEmail \/ password = EMPTY THEN Fail("login", 400)
    ELSE LET found == {u \in users : u.email = Lower(email) /\ u.password = password} IN
         IF found = {} THEN Fail("login", 401)
         ELSE LET user == FetchOne(found) IN
              /\ session' = [session EXCEPT ![c] = [user_id |-> user.id, role |-> user.role]]
              /\ Respond("login", 200, PublicUser(user))
              /\ UNCHANGED <<users, events, attendance, nextUser, nextEvent, nextAtt, procs>>

\* POST /api/auth/logout
Logout(c) ==
    /\ session' = [session EXCEPT ![c] = NoSession]
    /\ Respond("logout", 200, NULL)
    /\ UNCHANGED <<users, events, attendance, nextUser, nextEvent, nextAtt, procs>>

\* get_user: the status code and the body of the response
GetUserResponse(c, uid) ==
    IF NotSelfNorAdmin(c, uid) THEN [code |-> 403, body |-> NULL]
    ELSE IF UsersById(users, uid) = {} THEN [code |-> 404, body |-> NULL]
    ELSE [code |-> 200, body |-> PublicUser(FetchOne(UsersById(users, uid)))]

\* GET /api/users/<user_id>
GetUser(c, uid) ==
    /\ Respond("get_user", GetUserResponse(c, uid).code, GetUserResponse(c, uid).body)
    /\ UNCHANGED <<users, events, attendance, session, nextUser, nextEvent, nextAtt, procs>>

\* update_user: the columns the UPDATE statement assigns (update_fields)
UpdateFields(patch) ==
    {f \in {"first_name", "last_name", "profile_photo"} : patch[f] # ABSENT}
      \cup (IF patch.email # AbsentEmail THEN {"email"} ELSE {})
      \cup (IF patch.password # ABSENT /\ Len(patch.password) >= MinPasswordLen
            THEN {"password"} ELSE {})

\* variant of PatchedUser: the UPDATE also sets status back to pending
PatchedUserResetsStatus(u, patch) ==
    LET fields == UpdateFields(patch) IN
    [u EXCEPT !.first_name = IF "first_name" \in fields THEN patch.first_name ELSE @,
              !.last_name = IF "last_name" \in fields THEN patch.last_name ELSE @,
              !.email = IF "email" \in fields THEN Lower(patch.email) ELSE @,
              !.password = IF "password" \in fields THEN patch.password ELSE @,
              !.profile_photo = IF "profile_photo" \in fields THEN patch.profile_photo ELSE @,
              !.status = "pending"]

\* update_user: the row after the UPDATE statement
PatchedUser(u, patch) ==
    LET fields == UpdateFields(patch) IN
    [u EXCEPT !.first_name = IF "first_name" \in fields THEN patch.first_name ELSE @,
              !.last_name = IF "last_name" \in fields THEN patch.last_name ELSE @,
              !.email = IF "email" \in fields THEN Lower(patch.email) ELSE @,
              !.password = IF "password" \in fields THEN patch.password ELSE @,
              !.profile_photo = IF "profile_photo" \in fields THEN patch.profile_photo ELSE @]

\* PUT /api/users/<user_id>
UpdateUser(c, uid, patch) ==
    IF NotSelfNorAdmin(c, uid) THEN Fail("update_user", 403)
    ELSE IF UpdateFields(patch) = {} THEN Fail("update_user", 400)
    ELSE IF UsersById(users, uid) = {}
         THEN /\ UNCHANGED tables /\ Ok("update_user", 200, NULL)
    ELSE LET old == FetchOne(UsersById(users, uid))
             new == PatchedUser(old, patch) IN
         IF UsersConstraintOk(users \ {old}, new)
         THEN /\ users' = (users \ {old}) \cup {new}
              /\ UNCHANGED <<events, attendance>>
              /\ Ok("update_user", 200, NULL)
         ELSE Fail("update_user", 500)

\* variant of DeleteUserRows: the attendance rows of the user are kept
DeleteUserRowsNoCascade(uid) ==
    /\ attendance' = attendance
    /\ users' = {u \in users : u.id # uid}

\* DELETE FROM attendance WHERE student_id = ?; DELETE FROM users WHERE id = ?
DeleteUserRows(uid) ==
    /\ attendance' = {r \in attendance : r.student_id # uid}
    /\ users' = {u \in users : u.id # uid}

\* DELETE /api/users/<user_id>
DeleteUser(c, uid) ==
    IF NotAdmin(c) THEN Fail("delete_user", 403)
    ELSE /\ DeleteUserRows(uid)
         /\ UNCHANGED events
         /\ Ok("delete_user", 200, NULL)

\* mutant of VerifiedRows: the UPDATE has no WHERE clause
VerifiedRowsAll(tbl, uid, qr) ==
    {[u EXCEPT !.status = "verified", !.qr_code = qr] : u \in tbl}

\* mutant of VerifiedRows: the UPDATE stores the code of a user of any id and
\* sets the status of the user of the id given
VerifiedRowsQrOnly(tbl, uid, qr) ==
    {IF u.id = uid THEN [u EXCEPT !.status = "verified", !.qr_code = qr]
                   ELSE [u EXCEPT !.qr_code = qr] : u \in tbl}

\* UPDATE users SET status = 'verified', qr_code = ? WHERE id = ?
VerifiedRows(tbl, uid, qr) ==
    {IF u.id = uid THEN [u EXCEPT !.status = "verified", !.qr_code = qr] ELSE u : u \in tbl}

\* POST /api/users/<user_id>/verify
VerifyUser(c, uid, qr) ==
    IF NotAdmin(c) THEN Fail("verify", 403)
    ELSE IF qr = EMPTY THEN Fail("verify", 400)
    ELSE /\ users' = VerifiedRows(users, uid, qr)
         /\ UNCHANGED <<events, attendance>>
         /\ Ok("verify", 200, NULL)

\* PUT /api/users/<user_id>/role
UpdateUserRole(c, uid, role) ==
    IF NotAdmin(c) THEN Fail("set_role", 403)
    ELSE IF role \notin {"student", "admin"} THEN Fail("set_role", 400)
    ELSE /\ users' = {IF u.id = uid THEN [u EXCEPT !.role = role] ELSE u : u \in users}
         /\ UNCHANGED <<events, attendance>>
         /\ Ok("set_role", 200, NULL)

\* POST /api/events
CreateEvent(c, d) ==
    IF NotAdmin(c) THEN Fail("create_event", 403)
    ELSE IF \E f \in DOMAIN d : d[f] = EMPTY THEN Fail("create_event", 400)
    ELSE /\ nextEvent < MaxEvents
         /\ events' = events \cup
               {[id |-> EventIdOf(nextEvent + 1), name |-> d.name,
                 description |-> d.description, date |-> d.date,
                 start_time |-> d.start_time, end_time |-> d.end_time,
                 status |-> "active"]}
         /\ nextEvent' = nextEvent + 1
         /\ Respond("create_event", 201, NULL)
         /\ UNCHANGED <<users, attendance, session, nextUser, nextAtt, procs>>

\* update_event: the row after the UPDATE statement
PatchedEvent(e, patch) ==
    [f \in DOMAIN e |-> IF f # "id" /\ patch[f] # ABSENT THEN patch[f] ELSE e[f]]

\* PUT /api/events/<event_id>
UpdateEvent(c, eid, patch) ==
    IF NotAdmin(c) THEN Fail("update_event", 403)
    ELSE IF \A f \in DOMAIN patch : patch[f] = ABSENT THEN Fail("update_event", 400)
    ELSE /\ events' = {IF e.id = eid THEN PatchedEvent(e, patch) ELSE e : e \in events}
         /\ UNCHANGED <<users, attendance>>
         /\ Ok("update_event", 200, NULL)

\* mutant of DeleteEventRows: the attendance rows of the event are kept
DeleteEventRowsNoCascade(eid) ==
    /\ attendance' = attendance
    /\ events' = {e \in events : e.id # eid}

\* DELETE FROM attendance WHERE event_id = ?; DELETE FROM events WHERE id = ?
DeleteEventRows(eid) ==
    /\ attendance' = {r \in attendance : r.event_id # eid}
    /\ events' = {e \in events : e.id # eid}

\* DELETE /api/events/<event_id>
DeleteEvent(c, eid) ==
    IF NotAdmin(c) THEN Fail("delete_event", 403)
    ELSE /\ DeleteEventRows(eid)
         /\ UNCHANGED users
         /\ Ok("delete_event", 200, NULL)

\* mutant of NotVerified: the status of the student row is not looked at
NotVerifiedNoStatus(rows) == rows = {}

\* mark_attendance: `not student or student['status'] != 'verified'`
NotVerified(rows) == rows = {} \/ FetchOne(rows).status # "verified"

\* variant of MarkAttendance: the INSERT comes before the student lookup, and
\* the row of an unknown or unverified student stays when 404 is answered
MarkAttendanceInsertFirst(c, eid, sid) ==
    IF NotAdmin(c) THEN Fail("mark", 403)
    ELSE IF eid = EMPTY \/ sid = EMPTY THEN Fail("mark", 400)
    ELSE IF AttendanceFor(attendance, eid, sid) # {} THEN Fail("mark", 409)
    ELSE /\ nextAtt < MaxAtt
         /\ attendance' = attendance \cup
               {NewAttendanceRow(AttIdOf(nextAtt + 1), eid, sid,
                                 IF UsersById(users, sid) = {} THEN AdminRow
                                 ELSE FetchOne(UsersById(users, sid)))}
         /\ nextAtt' = nextAtt + 1
         /\ Respond("mark", IF NotVerified(UsersById(users, sid)) THEN 404 ELSE 201, NULL)
         /\ UNCHANGED <<users, events, session, nextUser, nextEvent, procs>>

\* POST /api/attendance
MarkAttendance(c, eid, sid) ==
    IF NotAdmin(c) THEN Fail("mark", 403)
    ELSE IF eid = EMPTY \/ sid = EMPTY THEN Fail("mark", 400)
    ELSE IF AttendanceFor(attendance, eid, sid) # {} THEN Fail("mark", 409)
    ELSE IF NotVerified(UsersById(users, sid)) THEN Fail("mark", 404)
    ELSE /\ nextAtt < MaxAtt
         /\ attendance' = attendance \cup
               {NewAttendanceRow(AttIdOf(nextAtt + 1), eid, sid, FetchOne(UsersById(users, sid)))}
         /\ nextAtt' = nextAtt + 1
         /\ Respond("mark", 201, NULL)
         /\ UNCHANGED <<users, events, session, nextUser, nextEvent, procs>>

\* variant of DeleteAttendance: the DELETE is never committed, the row stays
DeleteAttendanceKeepsRow(c, aid) ==
    IF NotAdmin(c) THEN Fail("unmark", 403)
    ELSE /\ UNCHANGED <<users, events, attendance>>
         /\ Ok("unmark", 200, NULL)

\* variant of DeleteAttendance: an id that matches no row is answered 404
DeleteAttendanceStrict(c, aid) ==
    IF NotAdmin(c) THEN Fail("unmark", 403)
    ELSE IF \A r \in attendance : r.id # aid THEN Fail("unmark", 404)
    ELSE /\ attendance' = {r \in attendance : r.id # aid}
         /\ UNCHANGED <<users, events>>
         /\ Ok("unmark", 200, NULL)

\* DELETE /api/attendance/<attendance_id>
DeleteAttendance(c, aid) ==
    IF NotAdmin(c) THEN Fail("unmark", 403)
    ELSE /\ attendance' = {r \in attendance : r.id # aid}
         /\ UNCHANGED <<users, events>>
         /\ Ok("unmark", 200, NULL)

\* variant of StatsBody: the three user counts have no `role = 'student'`
StatsBodyAllUsers ==
    [total_students |-> Cardinality(users),
     pending_students |-> Cardinality({u \in users : u.status = "pending"}),
     verified_students |-> Cardinality({u \in users : u.status = "verified"}),
     total_events |-> Cardinality(events),
     total_attendance |-> Cardinality(attendance)]

\* variant of StatsBody: the pending count has no `role = 'student'`
StatsBodyPendingAnyRole ==
    [total_students |-> Cardinality({u \in users : u.role = "student"}),
     pending_students |-> Cardinality({u \in users : u.status = "pending"}),
     verified_students |->
        Cardinality({u \in users : u.role = "student" /\ u.status = "verified"}),
     total_events |-> Cardinality(events),
     total_attendance |-> Cardinality(attendance)]

\* get_stats: the five COUNT(*) queries
StatsBody ==
    [total_students |-> Cardinality({u \in users : u.role = "student"}),
     pending_students |->
        Cardinality({u \in users : u.role = "student" /\ u.status = "pending"}),
     verified_students |->
        Cardinality({u \in users : u.role = "student" /\ u.status = "verified"}),
     total_events |-> Cardinality(events),
     total_attendance |-> Cardinality(attendance)]

\* GET /api/stats
GetStats(c) ==
    IF NotAdmin(c) THEN Fail("stats", 403)
    ELSE /\ Respond("stats", 200, StatsBody)
         /\ UNCHANGED <<users, events, attendance, session, nextUser, nextEvent, nextAtt, procs>>

(***************************************************************************)
(* Spec: requests run one at a time.                                       *)
(***************************************************************************)
NoLast == [op |-> "init_db", code |-> 0, body |-> NULL]

Procs == 1..MaxProcs

\* a request slot of ConcSpec that holds no request
NoData == [student_id |-> EMPTY, first_name |-> EMPTY, last_name |-> EMPTY,
           email |-> NoEmail, password |-> EMPTY]
Idle == [pc |-> "idle", event_id |-> EMPTY, student_id |-> EMPTY, data |-> NoData,
         student |-> AdminRow]

Init ==
    /\ users = {AdminRow}
    /\ events = {}
    /\ attendance = {}
    /\ session = [c \in Clients |-> NoSession]
    /\ nextUser = 0
    /\ nextEvent = 0
    /\ nextAtt = 0
    /\ last = NoLast
    /\ procs = [p \in Procs |-> Idle]

\* the ids of the student accounts of Spec and ConcSpec, created or not
StudentTargets == {UserIdOf(n) : n \in 1..MaxStudents}

\* the ids of the student accounts of IdSpec and RegConcSpec, created or not
IdTargets == {UserIdOf(n) : n \in 1..MaxUsers}

Next ==
    \E c \in Clients :
       \/ \E d \in RegisterInputs({"S1", EMPTY}, {<<"A","@","x">>})
                        \cup RegisterInputs({"S2"}, {<<"b","@","x">>}) :
             Register(d, MaxStudents)
       \/ \E e \in {AdminEmail, <<"a","@","x">>, <<"b","@","x">>, NoEmail}, pw \in {"secret1", AdminPassword} :
             Login(c, e, pw)
       \/ Logout(c)
       \/ \E uid \in StudentTargets, patch \in ProfilePatches : UpdateUser(c, uid, patch)
       \/ \E uid \in StudentTargets : DeleteUser(c, uid)
       \/ \E uid \in StudentTargets, qr \in {"QR1", EMPTY} : VerifyUser(c, uid, qr)
       \/ \E uid \in StudentTargets, role \in Roles \cup {"teacher"} : UpdateUserRole(c, uid, role)
       \/ \E d \in EventInputs : CreateEvent(c, d)
       \/ \E eid \in EventIdInputs, patch \in EventPatches : UpdateEvent(c, eid, patch)
       \/ \E eid \in EventIdInputs : DeleteEvent(c, eid)
       \/ \E eid \in EventIdInputs \cup {EMPTY}, sid \in StudentTargets \cup {AdminId, EMPTY} :
             MarkAttendance(c, eid, sid)
       \/ \E aid \in AttIdInputs : DeleteAttendance(c, aid)

Spec == Init /\ [][Next]_vars

(***************************************************************************)
(* AllSpec: Spec, the stats route, and an update of a student's email to   *)
(* the email of the admin, which breaks the UNIQUE constraint of the       *)
(* column.                                                                 *)
(***************************************************************************)
\* JSON body of PUT /api/users/<user_id> that names the email of the admin
AdminEmailPatch == [NoPatch EXCEPT !.email = AdminEmail]

AllNext ==
    \/ Next
    \/ \E c \in Clients : GetStats(c)
    \/ \E c \in Clients, uid \in StudentTargets : UpdateUser(c, uid, AdminEmailPatch)

AllSpec == Init /\ [][AllNext]_vars

(***************************************************************************)
(* IdSpec: the identity routes alone, requests run one at a time, with two *)
(* student accounts.  verify and get name any user, the admin included;    *)
(* update, delete and set-role name the student accounts.                  *)
(***************************************************************************)
IdNext ==
    \E c \in Clients :
       \/ \E d \in RegisterInputs(StudentIds \cup {EMPTY}, Emails) : Register(d, MaxUsers)
       \/ \E e \in Emails \cup {AdminEmail, NoEmail}, pw \in {"secret1", AdminPassword} :
             Login(c, e, pw)
       \/ Logout(c)
       \/ \E uid \in UserIdInputs : GetUser(c, uid)
       \/ \E uid \in IdTargets, patch \in EmailPatches : UpdateUser(c, uid, patch)
       \/ \E uid \in IdTargets : DeleteUser(c, uid)
       \/ \E uid \in UserIdInputs, qr \in QrCodes \cup {EMPTY} : VerifyUser(c, uid, qr)
       \/ \E uid \in IdTargets, role \in Roles \cup {"teacher"} : UpdateUserRole(c, uid, role)

IdSpec == Init /\ [][IdNext]_vars

(***************************************************************************)
(* ConcSpec and RegConcSpec: mark_attendance and register run one          *)
(* statement at a time.                                                    *)
(* Each SELECT is a read of its own and the INSERT commits on its own      *)
(* (sqlite3 opens a transaction only before the INSERT), so the statements *)
(* of the requests in flight interleave.  The other handlers issue one     *)
(* statement, or one transaction that commits at its end, and stay atomic. *)
(***************************************************************************)
\* the response of the request in slot p, which becomes free
Finish(p, op, code) ==
    /\ procs' = [procs EXCEPT ![p] = Idle]
    /\ Respond(op, code, NULL)

\* mark_attendance up to get_db(): the admin gate and the two required ids
MarkBegin(p, c, eid, sid) ==
    /\ procs[p].pc = "idle"
    /\ IF NotAdmin(c) THEN Fail("mark", 403)
       ELSE IF eid = EMPTY \/ sid = EMPTY THEN Fail("mark", 400)
       ELSE /\ procs' = [procs EXCEPT ![p] =
                             [Idle EXCEPT !.pc = "mark_check", !.event_id = eid,
                                          !.student_id = sid]]
            /\ UNCHANGED <<users, events, attendance, session, nextUser, nextEvent,
                           nextAtt, last>>

\* mark_attendance: "Check if already marked"
MarkCheckExisting(p) ==
    /\ procs[p].pc = "mark_check"
    /\ IF AttendanceFor(attendance, procs[p].event_id, procs[p].student_id) # {}
       THEN Finish(p, "mark", 409)
       ELSE /\ procs' = [procs EXCEPT ![p].pc = "mark_lookup"]
            /\ UNCHANGED last
    /\ UNCHANGED <<users, events, attendance, session, nextUser, nextEvent, nextAtt>>

\* mark_attendance: "Get student details"
MarkLookupStudent(p) ==
    /\ procs[p].pc = "mark_lookup"
    /\ LET rows == UsersById(users, procs[p].student_id) IN
       IF NotVerified(rows)
       THEN Finish(p, "mark", 404)
       ELSE /\ procs' = [procs EXCEPT ![p].pc = "mark_insert",
                                      ![p].student = FetchOne(rows)]
            /\ UNCHANGED last
    /\ UNCHANGED <<users, events, attendance, session, nextUser, nextEvent, nextAtt>>

\* mutant of MarkInsert: the INSERT runs into a UNIQUE (event_id, student_id)
\* constraint, and the handler answers 409
MarkInsertUnique(p) ==
    /\ procs[p].pc = "mark_insert"
    /\ nextAtt < MaxAtt
    /\ IF AttendanceFor(attendance, procs[p].event_id, procs[p].student_id) # {}
       THEN /\ UNCHANGED <<attendance, nextAtt>>
            /\ Finish(p, "mark", 409)
       ELSE /\ attendance' = attendance \cup
                  {NewAttendanceRow(AttIdOf(nextAtt + 1), procs[p].event_id,
                                    procs[p].student_id, procs[p].student)}
            /\ nextAtt' = nextAtt + 1
            /\ Finish(p, "mark", 201)
    /\ UNCHANGED <<users, events, session, nextUser, nextEvent>>

\* mark_attendance: "Mark attendance", the INSERT and the commit
MarkInsert(p) ==
    /\ procs[p].pc = "mark_insert"
    /\ nextAtt < MaxAtt
    /\ attendance' = attendance \cup
          {NewAttendanceRow(AttIdOf(nextAtt + 1), procs[p].event_id,
                            procs[p].student_id, procs[p].student)}
    /\ nextAtt' = nextAtt + 1
    /\ Finish(p, "mark", 201)
    /\ UNCHANGED <<users, events, session, nextUser, nextEvent>>

\* register up to get_db(): the validation of the body
RegisterBegin(p, d) ==
    /\ procs[p].pc = "idle"
    /\ IF RegisterInvalid(d) THEN Fail("register", 400)
       ELSE /\ procs' = [procs EXCEPT ![p] = [Idle EXCEPT !.pc = "reg_email", !.data = d]]
            /\ UNCHANGED <<users, events, attendance, session, nextUser, nextEvent,
                           nextAtt, last>>

\* register: "Check duplicate email"
RegisterCheckEmail(p) ==
    /\ procs[p].pc = "reg_email"
    /\ IF UsersByEmail(users, Lower(procs[p].data.email)) # {}
       THEN Finish(p, "register", 409)
       ELSE /\ procs' = [procs EXCEPT ![p].pc = "reg_student_id"]
            /\ UNCHANGED last
    /\ UNCHANGED <<users, events, attendance, session, nextUser, nextEvent, nextAtt>>

\* register: "Check duplicate student ID"
RegisterCheckStudentId(p) ==
    /\ procs[p].pc = "reg_student_id"
    /\ IF UsersByStudentId(users, procs[p].data.student_id) # {}
       THEN Finish(p, "register", 409)
       ELSE /\ procs' = [procs EXCEPT ![p].pc = "reg_insert"]
            /\ UNCHANGED last
    /\ UNCHANGED <<users, events, attendance, session, nextUser, nextEvent, nextAtt>>

\* register: "Create new user", the INSERT and the commit; an IntegrityError
\* of the INSERT is caught by the handler and answered 500
RegisterInsert(p) ==
    /\ procs[p].pc = "reg_insert"
    /\ nextUser < MaxUsers
    /\ LET row == NewStudentRow(UserIdOf(nextUser + 1), procs[p].data) IN
          IF UsersConstraintOk(users, row)
          THEN /\ users' = users \cup {row}
               /\ nextUser' = nextUser + 1
               /\ Finish(p, "register", 201)
          ELSE /\ UNCHANGED <<users, nextUser>>
               /\ Finish(p, "register", 500)
    /\ UNCHANGED <<events, attendance, session, nextEvent, nextAtt>>

\* ConcSpec: the requests around mark_attendance, with one student account
ConcNext ==
    \/ \E p \in Procs, c \in Clients, sid \in StudentTargets \cup {EMPTY} :
          MarkBegin(p, c, EventIdOf(1), sid)
    \/ \E p \in Procs : MarkCheckExisting(p)
    \/ \E p \in Procs : MarkLookupStudent(p)
    \/ \E p \in Procs : MarkInsert(p)
    \/ \E d \in RegisterInputs({"S1"}, {<<"A","@","x">>}) : Register(d, MaxStudents)
    \/ \E c \in Clients : Login(c, AdminEmail, AdminPassword)
    \/ \E c \in Clients : Logout(c)
    \/ \E c \in Clients, uid \in StudentTargets, qr \in {"QR1", EMPTY} : VerifyUser(c, uid, qr)
    \/ \E c \in Clients, uid \in StudentTargets : DeleteUser(c, uid)
    \/ \E c \in Clients, aid \in AttIdInputs : DeleteAttendance(c, aid)

ConcSpec == Init /\ [][ConcNext]_vars

\* RegConcSpec: the requests that write the users table, with two accounts
RegConcNext ==
    \/ \E p \in Procs, d \in RegisterInputs(StudentIds \cup {EMPTY}, Emails) :
          RegisterBegin(p, d)
    \/ \E p \in Procs : RegisterCheckEmail(p)
    \/ \E p \in Procs : RegisterCheckStudentId(p)
    \/ \E p \in Procs : RegisterInsert(p)
    \/ \E c \in Clients : Login(c, AdminEmail, AdminPassword)
    \/ \E c \in Clients, uid \in IdTargets, patch \in EmailPatches : UpdateUser(c, uid, patch)

RegConcSpec == Init /\ [][RegConcNext]_vars

(***************************************************************************)
(* Properties of Spec.                                                     *)
(***************************************************************************)
\* the caller of a request of client c holds an admin session
IsAdmin(c) == session[c].role = "admin"

\* uid is the id of a user whose status is verified
IsVerified(uid) == \E u \in users : u.id = uid /\ u.status = "verified"

\* the attendance rows of the pair (eid, sid)
RowsOfPair(rows, eid, sid) == {r \in rows : r.event_id = eid /\ r.student_id = sid}

\* the (event_id, student_id) pairs a mark request of Spec can name
MarkPairs == EventIdInputs \X (StudentTargets \cup {AdminId})

\* C1: with requests run one at a time, the attendance table never holds two
\* rows with the same (event_id, student_id).
C1_AtMostOneRecordPerPair ==
    \A r1, r2 \in attendance :
       (r1.event_id = r2.event_id /\ r1.student_id = r2.student_id) => r1 = r2

\* two pairs are marked and a further mark of a marked pair has just been rejected
C1_Witness ==
    /\ Cardinality(attendance) = 2
    /\ last.op = "mark" /\ last.code = 409

C4_SecondMarkIsConflict ==
    [][last'.op = "mark" => \A c \in Clients, pair \in MarkPairs :
          (IsAdmin(c) /\ IsVerified(pair[2])
             /\ MarkAttendance(c, pair[1], pair[2]))
             => IF RowsOfPair(attendance, pair[1], pair[2]) = {}
                THEN /\ last'.op = "mark" /\ last'.code = 201
                     /\ Cardinality(RowsOfPair(attendance', pair[1], pair[2])) = 1
                ELSE /\ last'.op = "mark" /\ last'.code = 409
                     /\ attendance' = attendance
                     /\ Cardinality(RowsOfPair(attendance', pair[1], pair[2])) = 1]_vars

\* one pair is marked and a second mark has just been rejected
C4_Witness ==
    /\ last.op = "mark" /\ last.code = 409
    /\ Cardinality(attendance) = 1
    /\ nextAtt = 1

\* C5: after an admin's delete-event(e) no attendance row names e and event e
\* is gone; after an admin's delete-user(u) no attendance row names u and user
\* u is gone; every other row of the three tables is as before.
C5_DeleteCascades ==
    [][/\ (last'.op = "delete_event") =>
             \A c \in Clients, eid \in EventIdInputs :
                (IsAdmin(c) /\ DeleteEvent(c, eid))
                   => /\ \A r \in attendance' : r.event_id # eid
                      /\ \A e \in events' : e.id # eid
                      /\ attendance' = {r \in attendance : r.event_id # eid}
                      /\ events' = {e \in events : e.id # eid}
                      /\ users' = users
       /\ (last'.op = "delete_user") =>
             \A c \in Clients, uid \in UserIdInputs :
                (IsAdmin(c) /\ DeleteUser(c, uid))
                   => /\ \A r \in attendance' : r.student_id # uid
                      /\ \A u \in users' : u.id # uid
                      /\ attendance' = {r \in attendance : r.student_id # uid}
                      /\ users' = {u \in users : u.id # uid}
                      /\ events' = events]_vars

\* two rows were inserted, the event of one of them has just been deleted, and
\* the row of the other event is still there
C5_Witness ==
    /\ last.op = "delete_event" /\ last.code = 200
    /\ nextEvent = 1 /\ events = {}
    /\ nextAtt = 2
    /\ \E r \in attendance : attendance = {r} /\ r.event_id # EventIdOf(1)

(***************************************************************************)
(* Properties of IdSpec.                                                   *)
(***************************************************************************)
\* two characters that are the same letter in either case
SameLetter(a, b) ==
    \/ a = b
    \/ {a, b} \in {{"a", "A"}, {"b", "B"}, {"x", "X"}}

\* two emails that are equal when letter case is ignored
SameIgnoringCase(e1, e2) ==
    /\ Len(e1) = Len(e2)
    /\ \A i \in 1..Len(e1) : SameLetter(e1[i], e2[i])

\* register bodies that carry all five fields, with a password of any length
FullRegisterInputs == RegisterInputs(StudentIds, Emails)

\* the email or the student_id of body d is that of a user
IsDuplicate(d) ==
    \E u \in users : SameIgnoringCase(u.email, d.email) \/ u.student_id = d.student_id

\* C6 as stated: a register call whose email, letter case ignored, or whose
\* student_id is that of a user is answered 409 and adds no user.
C6_DuplicateRegisterIsConflict ==
    [][last'.op = "register" => \A d \in FullRegisterInputs :
          (IsDuplicate(d) /\ Register(d, MaxUsers))
             => (last'.op = "register" /\ last'.code = 409 /\ users' = users)]_vars

\* C6 as amended: a register call with a password of at least 6 characters
\* whose email, letter case ignored, or whose student_id is that of a user is
\* answered 409 and adds no user.
C6_DuplicateValidRegisterIsConflict ==
    [][last'.op = "register" => \A d \in FullRegisterInputs :
          (IsDuplicate(d) /\ Len(d.password) >= 6
             /\ Register(d, MaxUsers))
             => (last'.op = "register" /\ last'.code = 409 /\ users' = users)]_vars

\* a register call has just been answered 409 while a student account exists
C6_Witness ==
    /\ last.op = "register" /\ last.code = 409
    /\ \E u \in users : u.role = "student" /\ u.student_id \in StudentIds

\* C8 as stated: an admin's verify with a non-empty code and a user id that is
\* the id of no user is answered 404 and leaves the users table as it was.
C8_VerifyUnknownIsNotFound ==
    [][last'.op = "verify" => \A c \in Clients, uid \in UserIdInputs, qr \in QrCodes :
          (IsAdmin(c) /\ (~\E u \in users : u.id = uid)
             /\ VerifyUser(c, uid, qr))
             => (last'.op = "verify" /\ last'.code = 404 /\ users' = users)]_vars

\* C9: an admin's verify(u, c) of a user u with a non-empty code c is answered
\* 200; the get(u) that follows returns status verified and qr_code c, whatever
\* the status and the code of u were; no other field of u and no other user
\* changes.
C9_VerifyThenGet ==
    [][last'.op = "verify" => \A c \in Clients, uid \in UserIdInputs, qr \in QrCodes :
          (IsAdmin(c) /\ (\E u \in users : u.id = uid)
             /\ VerifyUser(c, uid, qr))
             => LET old == CHOOSE u \in users : u.id = uid
                    got == GetUserResponse(c, uid)'
                IN  /\ last'.op = "verify" /\ last'.code = 200
                    /\ got.code = 200
                    /\ got.body.status = "verified"
                    /\ got.body.qr_code = qr
                    /\ got.body = [PublicUser(old) EXCEPT !.status = "verified",
                                                          !.qr_code = qr]
                    /\ users' = (users \ {old}) \cup
                          {[old EXCEPT !.status = "verified", !.qr_code = qr]}]_vars

\* a get of a student has just returned status verified and a code
C9_Witness ==
    /\ last.op = "get_user" /\ last.code = 200
    /\ last.body.role = "student"
    /\ last.body.status = "verified"
    /\ last.body.qr_code \in QrCodes

\* a user of status pending, role student and no qr_code
IsFreshStudent(u) ==
    u.status = "pending" /\ u.role = "student" /\ u.qr_code = NULL

\* C10: every user with a qr_code has status verified; the admin is seeded
\* without a qr_code, and a user is created by register with status pending,
\* role student and no qr_code.
C10_QrCodeOnlyWhenVerified ==
    /\ \E u \in users : u.id = AdminId /\ u.qr_code = NULL
    /\ [](\A u \in users : u.qr_code # NULL => u.status = "verified")
    /\ [][last'.op = "register" => \A d \in FullRegisterInputs :
             (last'.code = 201 /\ Register(d, MaxUsers))
                => \E u \in users' :
                      /\ u \notin users /\ users' = users \cup {u}
                      /\ IsFreshStudent(u)]_vars

\* one user has a qr_code while another, created by register, is still pending
C10_Witness ==
    /\ \E u \in users : u.qr_code \in QrCodes /\ u.status = "verified"
    /\ \E u \in users : IsFreshStudent(u)

(***************************************************************************)
(* Properties of ConcSpec and RegConcSpec.                                 *)
(***************************************************************************)
\* C2: a mark request that has passed the existence check and has read a
\* verified student inserts its row and is answered 201 whatever the table
\* holds by then, so that two requests for one pair that both pass the check
\* both insert (C2_Witness is the state they reach).
C2_InsertAfterCheckAlwaysInserts ==
    [][\A p \in Procs :
          (procs[p].pc = "mark_insert" /\ procs'[p].pc = "idle")
             => /\ last'.op = "mark" /\ last'.code = 201
                /\ Cardinality(RowsOfPair(attendance', procs[p].event_id, procs[p].student_id))
                      = Cardinality(RowsOfPair(attendance, procs[p].event_id,
                                               procs[p].student_id)) + 1]_vars

\* both requests are done and the pair of a verified student has two rows
C2_Witness ==
    /\ \A p \in Procs : procs[p].pc = "idle"
    /\ \E r1, r2 \in attendance :
          /\ r1 # r2
          /\ r1.event_id = r2.event_id /\ r1.student_id = r2.student_id
          /\ IsVerified(r1.student_id)

\* C7: no two users have the same email and no two users have the same
\* student_id that is not NULL, also when users change their email and when
\* the statements of concurrent register requests interleave.
C7_EmailAndStudentIdUnique ==
    \A u1, u2 \in users :
       u1 # u2 => /\ u1.email # u2.email
                  /\ (u1.student_id = NULL \/ u1.student_id # u2.student_id)

\* a register request passed both duplicate checks, and its INSERT then broke
\* a UNIQUE constraint because of a row another request had inserted meanwhile
C7_Witness ==
    /\ last.op = "register" /\ last.code = 500
    /\ Cardinality(users) >= 2

(***************************************************************************)
(* Properties of Spec and AllSpec: the gate, errors, the copy of the       *)
(* student in an attendance row.                                           *)
(***************************************************************************)
\* the routes behind the admin gate that write a table
AdminWriteOps ==
    {"verify", "set_role", "delete_user", "create_event", "update_event",
     "delete_event", "mark", "unmark"}

\* the status codes of the error responses
ErrorCodes == {400, 401, 403, 404, 409, 500}

\* C11: verify, set-role, delete-user, create-event, update-event,
\* delete-event, mark and unmark, called with no session or with a session
\* whose role is not admin, are answered 403 and leave the users, events and
\* attendance tables as they were.
C11_NonAdminIsRejected ==
    [][((\A c \in Clients : ~IsAdmin(c)) /\ last'.op \in AdminWriteOps)
          => (last'.code = 403 /\ tables' = tables)]_vars

\* a mark of a verified student by a caller logged in as a student has just
\* been answered 403
C11_Witness ==
    /\ last.op = "mark" /\ last.code = 403
    /\ \E c \in Clients : session[c].role = "student"
    /\ \E u \in users : u.role = "student" /\ u.status = "verified"

\* C12: a request answered 400, 401, 403, 404, 409 or 500 leaves the users,
\* events and attendance tables as they were.
C12_ErrorLeavesTablesUnchanged ==
    [][last'.code \in ErrorCodes => tables' = tables]_vars

\* an update of a student's email has just been answered 500 while the
\* attendance table holds a row
C12_Witness ==
    /\ last.op = "update_user" /\ last.code = 500
    /\ attendance # {}

\* the first name and the last name of user u, as an attendance row holds them
FullName(u) == u.first_name \o " " \o u.last_name

\* C13: the row a successful mark inserts holds the first name, the last name
\* and the profile_photo the student has at that moment, and update-user,
\* verify and set-role leave every attendance row as it was.
C13_RecordKeepsStudentAsMarked ==
    [][/\ (last'.op = "mark" /\ last'.code = 201) =>
             \E r \in attendance' :
                /\ r \notin attendance
                /\ attendance' = attendance \cup {r}
                /\ \E u \in users :
                      /\ u.id = r.student_id
                      /\ r.student_name = FullName(u)
                      /\ r.student_photo = u.profile_photo
       /\ (last'.op \in {"update_user", "verify", "set_role"}) =>
             attendance' = attendance]_vars

\* a student was marked, then changed name and photo: the row still holds the
\* old ones
C13_Witness ==
    /\ last.op = "update_user" /\ last.code = 200
    /\ \E r \in attendance, u \in users :
          /\ r.student_id = u.id
          /\ r.student_name # FullName(u)
          /\ r.student_photo # u.profile_photo

\* the step is an admin's unmark of a row of the pair, delete-event of its
\* event or delete-user of its student
RemovesPair(eid, sid) ==
    \E c \in Clients :
       /\ IsAdmin(c)
       /\ \/ DeleteEvent(c, eid)
          \/ DeleteUser(c, sid)
          \/ \E r \in RowsOfPair(attendance, eid, sid) : DeleteAttendance(c, r.id)

\* C14: a marked pair stays marked, with the same row, in every step other
\* than an admin's unmark of its row, delete-event of its event and
\* delete-user of its student; an admin's unmark of its row leaves the pair
\* unmarked; and a mark of an unmarked pair of a verified student is answered
\* 201 and leaves the pair marked.
C14_MarkedUntilRemoved ==
    [][\A pair \in MarkPairs :
          LET rows == RowsOfPair(attendance, pair[1], pair[2]) IN
          /\ (rows # {} /\ ~RemovesPair(pair[1], pair[2]))
                => RowsOfPair(attendance', pair[1], pair[2]) = rows
          /\ (last'.op = "unmark") =>
                \A c \in Clients, r \in rows :
                   (IsAdmin(c) /\ DeleteAttendance(c, r.id))
                      => RowsOfPair(attendance', pair[1], pair[2]) = {}
          /\ (last'.op = "mark") =>
                \A c \in Clients :
                   (rows = {} /\ IsAdmin(c) /\ IsVerified(pair[2])
                      /\ MarkAttendance(c, pair[1], pair[2]))
                      => /\ last'.code = 201
                         /\ RowsOfPair(attendance', pair[1], pair[2]) # {}]_vars

\* the second row ever inserted is the only row, and its mark has just been
\* answered 201; its event and its student were never deleted
C14_Witness ==
    /\ last.op = "mark" /\ last.code = 201
    /\ nextAtt = 2 /\ nextEvent = 1 /\ nextUser = 1
    /\ events # {}
    /\ \E r \in attendance :
          /\ attendance = {r}
          /\ r.id = AttIdOf(2)
          /\ r.event_id = EventIdOf(1)
          /\ r.student_id = UserIdOf(1)
          /\ IsVerified(r.student_id)

\* C16: an admin's unmark of an id that matches no attendance row is answered
\* 200 and leaves the three tables as they were; an admin's unmark of an id
\* that matches a row is answered 200 and removes the rows of that id and no
\* other row of any table.
C16_UnmarkIsPermissive ==
    [][last'.op = "unmark" => \A c \in Clients, aid \in AttIdInputs :
          (IsAdmin(c) /\ DeleteAttendance(c, aid))
             => /\ last'.code = 200
                /\ users' = users /\ events' = events
                /\ IF \A r \in attendance : r.id # aid
                   THEN attendance' = attendance
                   ELSE /\ attendance' = {r \in attendance : r.id # aid}
                        /\ Cardinality(attendance') = Cardinality(attendance) - 1]_vars

\* an unmark has just been answered 200 although no row was ever inserted
C16_Witness ==
    /\ last.op = "unmark" /\ last.code = 200
    /\ nextAtt = 0

(***************************************************************************)
(* The scenario of registration, verification and marking.                 *)
(***************************************************************************)
\* the body of the register call of the scenario, and the row it creates
S1Body ==
    [student_id |-> "S1", first_name |-> "Ann", last_name |-> "Lee",
     email |-> <<"A","@","x">>, password |-> "secret1"]
S1Pending == NewStudentRow(UserIdOf(1), S1Body)
S1Verified == [S1Pending EXCEPT !.status = "verified", !.qr_code = "QR1"]

\* the store as init_db leaves it
FreshStore ==
    /\ users = {AdminRow} /\ events = {} /\ attendance = {}
    /\ nextUser = 0 /\ nextAtt = 0

\* the store after the register call, after the verify call, and after the
\* successful mark of the scenario
S1Registered == users = {AdminRow, S1Pending} /\ attendance = {}
S1IsVerified == users = {AdminRow, S1Verified} /\ attendance = {}
S1Marked ==
    /\ users = {AdminRow, S1Verified}
    /\ \E r \in attendance :
          /\ attendance = {r}
          /\ r.event_id = EventIdOf(1) /\ r.student_id = S1Pending.id

\* C15: from the store of init_db, register(S1) is answered 201; then
\* login(S1) is answered 200 with status pending; an admin's mark(event1, S1)
\* is answered 404; an admin's verify(S1, QR1) is answered 200; an admin's
\* mark(event1, S1) is answered 201; the same mark again is answered 409; and
\* stats reports total_students 1, pending_students 0, verified_students 1,
\* total_attendance 1.  Each step starts in the store the step before it
\* leaves.
C15_Scenario ==
    [][\A c \in Clients :
          /\ (last'.op = "register") =>
                ((FreshStore /\ Register(S1Body, MaxStudents))
                    => (last'.code = 201 /\ S1Registered'))
          /\ (last'.op = "login") =>
                ((S1Registered /\ Login(c, <<"a","@","x">>, "secret1"))
                    => /\ last'.code = 200
                       /\ last'.body.status = "pending"
                       /\ S1Registered')
          /\ (last'.op = "mark") =>
                /\ (S1Registered /\ IsAdmin(c)
                       /\ MarkAttendance(c, EventIdOf(1), S1Pending.id))
                      => (last'.code = 404 /\ S1Registered')
                /\ (S1IsVerified /\ IsAdmin(c)
                       /\ MarkAttendance(c, EventIdOf(1), S1Pending.id))
                      => (last'.code = 201 /\ S1Marked')
                /\ (S1Marked /\ IsAdmin(c)
                       /\ MarkAttendance(c, EventIdOf(1), S1Pending.id))
                      => (last'.code = 409 /\ S1Marked' /\ attendance' = attendance)
          /\ (last'.op = "verify") =>
                ((S1Registered /\ IsAdmin(c) /\ VerifyUser(c, S1Pending.id, "QR1"))
                    => (last'.code = 200 /\ S1IsVerified'))
          /\ (last'.op = "stats") =>
                ((S1Marked /\ IsAdmin(c) /\ GetStats(c))
                    => /\ last'.code = 200
                       /\ last'.body.total_students = 1
                       /\ last'.body.pending_students = 0
                       /\ last'.body.verified_students = 1
                       /\ last'.body.total_attendance = 1
                       /\ S1Marked')]_vars

\* the end of the scenario: stats has just answered in the store the scenario
\* leaves, in which one row was ever inserted
C15_Witness ==
    /\ S1Marked /\ nextAtt = 1
    /\ last.op = "stats" /\ last.code = 200
    /\ last.body.total_students = 1 /\ last.body.total_attendance = 1

\* C20: an admin's stats request changes no table, and each of its five counts
\* is the number of rows of its kind in the store at that moment: users of
\* role student, of these the pending and the verified, events, attendance
\* rows; the pending and the verified students add up to the students.
C20_StatsCountsTheStore ==
    [][last'.op = "stats" => \A c \in Clients :
          (IsAdmin(c) /\ GetStats(c))
             => LET students == {u \in users : u.role = "student"}
                    body == last'.body
                IN  /\ last'.code = 200
                    /\ tables' = tables
                    /\ body.total_students = Cardinality(students)
                    /\ body.pending_students =
                          Cardinality({u \in students : u.status = "pending"})
                    /\ body.verified_students =
                          Cardinality({u \in students : u.status = "verified"})
                    /\ body.total_events = Cardinality(events)
                    /\ body.total_attendance = Cardinality(attendance)
                    /\ body.pending_students + body.verified_students
                          = body.total_students]_vars

\* stats has just answered while a pending user has role admin and a row of
\* attendance exists
C20_Witness ==
    /\ last.op = "stats" /\ last.code = 200
    /\ \E u \in users : u.role = "admin" /\ u.status = "pending"
    /\ attendance # {}

(***************************************************************************)
(* Sessions, and the status of a user.                                     *)
(***************************************************************************)
\* the user the session of client c names is a user of role admin
CallerIsAdminUser(c) ==
    \E u \in users : u.id = session[c].user_id /\ u.role = "admin"

\* C17 as stated: when a request to a route behind the admin gate succeeds,
\* the user the session of the caller names is, at that moment, a user of
\* role admin.
C17_AdminSessionIsCurrentAdmin ==
    [][(last'.op \in AdminWriteOps /\ last'.code \in {200, 201})
          => \A c \in Clients : CallerIsAdminUser(c)]_vars

\* C18: with requests run one at a time, the student_id of every attendance
\* row is the id of a user whose status is verified.
C18_RecordNamesVerifiedUser ==
    \A r \in attendance :
       \E u \in users : u.id = r.student_id /\ u.status = "verified"

\* a student was deleted after two rows were inserted, and a row is left
C18_Witness ==
    /\ last.op = "delete_user" /\ last.code = 200
    /\ nextUser = 1 /\ users = {AdminRow}
    /\ nextAtt = 2 /\ Cardinality(attendance) = 1

\* C19: the status of every user is pending or verified, and a user who is
\* verified is verified after every step that does not delete the user.
C19_StatusOnlyMovesToVerified ==
    /\ [](\A u \in users : u.status \in {"pending", "verified"})
    /\ [][\A u \in users, v \in users' :
             (u.id = v.id /\ u.status = "verified") => v.status = "verified"]_vars

\* an update has just changed a row while both student accounts are verified
C19_Witness ==
    /\ last.op = "update_user" /\ last.code = 200
    /\ nextUser = 2 /\ Cardinality(users) = 3
    /\ \A u \in users : u.status = "verified"

(***************************************************************************)
(* mark_attendance against a concurrent delete_user (ConcSpec).  The       *)
(* FOREIGN KEY clauses of the attendance table are not enforced: the       *)
(* handlers never issue PRAGMA foreign_keys, and mark_attendance inserts   *)
(* rows for event ids that are the id of no event.                         *)
(***************************************************************************)
\* C21 as stated: when the statements of mark_attendance interleave with a
\* delete_user of the same student, then once no request is in flight the
\* student_id of every attendance row is the id of a user.
C21_NoRecordOfDeletedUser ==
    (\A p \in Procs : procs[p].pc = "idle")
       => \A r \in attendance : \E u \in users : u.id = r.student_id

====
